---- MODULE Spec2Model ----
(***************************************************************************)
(* Model of spotifyimport (src/bin/spotifyimport/main.rs): the pipeline of *)
(* run() -- one producer task, a pool of workers, one collector task, the  *)
(* join and the final report -- and the pure function search_query.        *)
(*                                                                         *)
(* Strings are sequences of one-character strings.  The workers all run    *)
(* the same closure and have no identity of their own, so the pool is kept *)
(* as a bag of worker-local states.                                        *)
(***************************************************************************)
EXTENDS Integers, Sequences, FiniteSets, Bags, TLC

VARIABLES
    mutate,        \* --mutate flag (main.rs:83)
    nWorkers,      \* size of the pool (main.rs:115)
    total,         \* Scrobbled.total (main.rs:168)
    songs,         \* Scrobbled.songs (main.rs:99)
    prodPc,        \* producer task: "send" | "done"
    next,          \* producer task: index of the next song to send
    workq,         \* spmc work channel (main.rs:102)
    taken,         \* history: how often each input position was received
    workers,       \* bag of worker-local states (main.rs:121-162)
    searchLog,     \* history: search requests issued, per input position
    addLog,        \* history: add requests issued, per input position
    outq,          \* mpsc outcome channel (main.rs:105)
    cap,           \* capacity of the outcome channel (main.rs:105)
    hung,          \* environment: the remote call that never returns
    collPc,        \* collector task: "recv" | "done"
    failed_songs,  \* main.rs:169
    received,      \* history: bag of outcomes the collector received
    mainPc,        \* run(): "join" | "report" | "done"
    exit,          \* how run() ended: "ok" | "error" | "panic" | "none"
    io,            \* environment: what the file system did in the report
    summary,       \* the final info! line (main.rs:197, 206)
    file,          \* the failures_<ts>.json file
    qIn,           \* search_query on its own: the arguments
    qOut           \* search_query on its own: the result

pipeVars == <<mutate, nWorkers, total, songs, prodPc, next, workq,
              taken, workers, searchLog, addLog, outq, cap, hung, collPc,
              failed_songs, received, mainPc, exit, io, summary, file>>
queryVars == <<qIn, qOut>>
vars == <<pipeVars, queryVars>>

None == "none"

----------------------------------------------------------------------------
(* Bounds of the model *)

MaxSongs == 2
MaxTotal == 1
MaxSuffixes == 2
MaxCapacity == 2

----------------------------------------------------------------------------
(* Strings *)

Str(c) == <<c>>

EndsWith(s, suffix) ==
    /\ Len(suffix) <= Len(s)
    /\ SubSeq(s, Len(s) - Len(suffix) + 1, Len(s)) = suffix

\* str::strip_suffix: Some(prefix) when s ends with suffix, else None;
\* followed by unwrap_or(s)  (main.rs:281)
StripSuffixOr(s, suffix) ==
    IF EndsWith(s, suffix) THEN SubSeq(s, 1, Len(s) - Len(suffix)) ELSE s

ALBUM_TRIM_SUFFIXES == <<
    \* " - EP"
    <<" ", "-", " ", "E", "P">>,
    \* " - Single"
    <<" ", "-", " ", "S", "i", "n", "g", "l", "e">>,
    \* " (Bonus Track Version)"
    <<" ", "(", "B", "o", "n", "u", "s", " ", "T", "r", "a", "c", "k", " ", "V",
      "e", "r", "s", "i", "o", "n", ")">>,
    \* " (Original Motion Picture Soundtrack)"
    <<" ", "(", "O", "r", "i", "g", "i", "n", "a", "l", " ", "M", "o", "t", "i",
      "o", "n", " ", "P", "i", "c", "t", "u", "r", "e", " ", "S", "o", "u", "n",
      "d", "t", "r", "a", "c", "k", ")">>,
    \* " (Special Edition)"
    <<" ", "(", "S", "p", "e", "c", "i", "a", "l", " ", "E", "d", "i", "t", "i",
      "o", "n", ")">>,
    \* " (Deluxe Edition)"
    <<" ", "(", "D", "e", "l", "u", "x", "e", " ", "E", "d", "i", "t", "i", "o",
      "n", ")">>,
    \* " (Deluxe Version)"
    <<" ", "(", "D", "e", "l", "u", "x", "e", " ", "V", "e", "r", "s", "i", "o",
      "n", ")">>,
    \* " (Deluxe)"
    <<" ", "(", "D", "e", "l", "u", "x", "e", ")">>,
    \* " (Deluxe Edition with Videos)"
    <<" ", "(", "D", "e", "l", "u", "x", "e", " ", "E", "d", "i", "t", "i", "o",
      "n", " ", "w", "i", "t", "h", " ", "V", "i", "d", "e", "o", "s", ")">>,
    \* " (Extended Version)"
    <<" ", "(", "E", "x", "t", "e", "n", "d", "e", "d", " ", "V", "e", "r", "s",
      "i", "o", "n", ")">>
>>

\* for suffix in ALBUM_TRIM_SUFFIXES { album = album.strip_suffix(suffix)
\*     .unwrap_or(album); }  -- the loop from suffix number k on
RECURSIVE TrimFrom(_, _)
TrimFrom(album, k) ==
    IF k > Len(ALBUM_TRIM_SUFFIXES) THEN album
    ELSE TrimFrom(StripSuffixOr(album, ALBUM_TRIM_SUFFIXES[k]), k + 1)

TrimAlbum(album) == TrimFrom(album, 1)

TRACK_PREFIX == <<"t", "r", "a", "c", "k", ":">>
ARTIST_PREFIX == <<"a", "r", "t", "i", "s", "t", ":">>
ALBUM_PREFIX == <<"a", "l", "b", "u", "m", ":">>

\* variant: the field is pushed without the is_empty test
PushFieldAlways(buf, prefix, field) == buf \o prefix \o field \o Str(" ")

\* if !field.is_empty() { buf.push_str(&format!("<prefix>{} ", field)); }
PushField(buf, prefix, field) ==
    IF field # <<>> THEN buf \o prefix \o field \o Str(" ") ELSE buf

\* search_query with the album already trimmed: the three push_str blocks
FormatQuery(track, artist, album) ==
    PushField(PushField(PushField(<<>>, TRACK_PREFIX, track),
                        ARTIST_PREFIX, artist),
              ALBUM_PREFIX, album)

search_query(track, artist, album) ==
    FormatQuery(track, artist, TrimAlbum(album))

----------------------------------------------------------------------------
(* Program constants and data *)

N_WORKERS == 16
OUTCOME_CAPACITY == 1

\* struct Song (main.rs:318-325); year and loved play no part in run()
SongA == [title |-> Str("T"), artist_name |-> Str("A"),
          album_title |-> Str("X") \o ALBUM_TRIM_SUFFIXES[1], ident |-> "a"]
SongB == [title |-> Str("U"), artist_name |-> <<>>,
          album_title |-> Str("X"), ident |-> "b"]
Songs == {SongA, SongB}
NoSong == [title |-> <<>>, artist_name |-> <<>>, album_title |-> <<>>,
           ident |-> ""]

\* A song on its way through the pipeline, tagged with its input position.
Item(i, song) == [idx |-> i, song |-> song]
NoItem == Item(0, NoSong)

Batches == UNION {[1..n -> Songs] : n \in 0..MaxSongs}

\* enum AddStatus (main.rs:55-58)
Added(item, id) ==
    [tag |-> "Added", item |-> item, id |-> id, reason |-> <<>>]
Skipped(item, reason) ==
    [tag |-> "Skipped", item |-> item, id |-> "", reason |-> reason]
NoOutcome == [tag |-> "none", item |-> NoItem, id |-> "", reason |-> <<>>]

----------------------------------------------------------------------------
(* The remote service, as the two functions see it *)

TrackIds == {"t1", "t2"}

\* What a search request can come back with: the transport failing, or a
\* status with a body that decodes (or not) to SearchResponse.
SearchRsp(err, status, json, items) ==
    [err |-> err, status |-> status, json |-> json, items |-> items]
SearchResponses ==
    { SearchRsp(TRUE, 0, FALSE, <<>>),
      SearchRsp(FALSE, 401, FALSE, <<>>),
      SearchRsp(FALSE, 200, FALSE, <<>>),
      SearchRsp(FALSE, 200, TRUE, <<>>),
      SearchRsp(FALSE, 200, TRUE, <<"t1">>),
      SearchRsp(FALSE, 200, TRUE, <<"t2", "t1">>) }

AddRsp(err, status) == [err |-> err, status |-> status]
AddResponses ==
    { AddRsp(TRUE, 0), AddRsp(FALSE, 200), AddRsp(FALSE, 204),
      AddRsp(FALSE, 403) }

\* Display of reqwest::StatusCode
StatusText(status) ==
    CASE status = 200 -> "200 OK"
      [] status = 204 -> "204 No Content"
      [] status = 401 -> "401 Unauthorized"
      [] status = 403 -> "403 Forbidden"
      [] OTHER -> "?"

Ok(v) == [ok |-> TRUE, val |-> v, err |-> <<>>]
Err(e) == [ok |-> FALSE, val |-> "", err |-> e]

\* if rsp.status() != 200 { bail!(...) }   (main.rs:224, 247)
BadStatus(status) == status # 200

\* variant: the id of the last item of the response is returned
search_last_item(rsp) ==
    IF rsp.err THEN Err(<<"build and execute request">>)
    ELSE IF BadStatus(rsp.status)
         THEN Err(<<"bad status code: ", StatusText(rsp.status)>>)
    ELSE IF ~rsp.json THEN Err(<<"json deserialize">>)
    ELSE IF rsp.items = <<>> THEN Err(<<"found zero tracks">>)
    ELSE Ok(rsp.items[Len(rsp.items)])

\* search_spotify_track, from the response on (main.rs:216-233)
search_spotify_track(rsp) ==
    IF rsp.err THEN Err(<<"build and execute request">>)
    ELSE IF BadStatus(rsp.status)
         THEN Err(<<"bad status code: ", StatusText(rsp.status)>>)
    ELSE IF ~rsp.json THEN Err(<<"json deserialize">>)
    ELSE IF rsp.items = <<>> THEN Err(<<"found zero tracks">>)
    ELSE Ok(rsp.items[1])

\* add_spotify_liked_track, from the response on (main.rs:238-251)
add_spotify_liked_track(rsp) ==
    IF rsp.err THEN Err(<<"build and execute request">>)
    ELSE IF BadStatus(rsp.status)
         THEN Err(<<"bad status code: ", StatusText(rsp.status)>>)
    ELSE Ok("")

\* format!("{}: {}", stage, e)
Reason(stage, e) == <<stage, ": ">> \o e

Contains(reason, token) == \E k \in 1..Len(reason) : reason[k] = token

\* The one remote call that never returns: the search or the add made for
\* the song at input position idx; none when idx = 0.
Hang(i, call) == [idx |-> i, call |-> call]
NoHang == Hang(0, "none")

----------------------------------------------------------------------------
(* The pipeline of run() *)

\* Worker-local state: where the closure of main.rs:121-161 stands, the
\* song it holds, the id the search returned, the AddStatus it is sending.
W(pc, item, id, out) == [pc |-> pc, item |-> item, id |-> id, out |-> out]
Idle == W("recv", NoItem, "", NoOutcome)
Exited == W("exited", NoItem, "", NoOutcome)

Replace(w, w2) == (workers (-) SetToBag({w})) (+) SetToBag({w2})

AllWorkersExited == CopiesIn(Exited, workers) = nWorkers

PipeInit ==
    /\ mutate \in BOOLEAN
    /\ nWorkers \in {1, N_WORKERS}
    /\ total \in 0..MaxTotal
    /\ songs \in Batches
    /\ prodPc = "send"
    /\ next = 1
    /\ workq = <<>>
    /\ taken = [i \in DOMAIN songs |-> 0]
    /\ workers = [w \in {Idle} |-> nWorkers]
    /\ searchLog = [i \in DOMAIN songs |-> <<>>]
    /\ addLog = [i \in DOMAIN songs |-> <<>>]
    /\ outq = <<>>
    /\ collPc = "recv"
    /\ failed_songs = <<>>
    /\ received = EmptyBag
    /\ mainPc = "join"
    /\ exit = None
    /\ io = None
    /\ summary = [printed |-> FALSE, total |-> 0, wrapped |-> FALSE,
                  added |-> 0, filename |-> FALSE]
    /\ file = [exists |-> FALSE, content |-> <<>>]

Init ==
    /\ PipeInit
    /\ cap = OUTCOME_CAPACITY
    /\ hung = NoHang
    /\ qIn = [track |-> <<>>, artist |-> <<>>, album |-> <<>>]
    /\ qOut = [done |-> FALSE, q |-> <<>>]

\* for song in songs { tx.send(song).unwrap(); }   (main.rs:109-111)
ProducerSend ==
    /\ prodPc = "send"
    /\ next <= Len(songs)
    /\ workq' = Append(workq, Item(next, songs[next]))
    /\ next' = next + 1
    /\ UNCHANGED <<mutate, nWorkers, total, songs, prodPc, taken, workers,
                   searchLog, addLog, outq, collPc, failed_songs, received,
                   mainPc, exit, io, summary, file, cap, hung, qIn, qOut>>

\* the producer task ends and drops tx: the work channel is disconnected
ProducerDone ==
    /\ prodPc = "send"
    /\ next > Len(songs)
    /\ prodPc' = "done"
    /\ UNCHANGED <<mutate, nWorkers, total, songs, next, workq, taken,
                   workers, searchLog, addLog, outq, collPc, failed_songs,
                   received, mainPc, exit, io, summary, file, cap, hung, qIn,
                   qOut>>

\* Variant: a receive that leaves the message in the channel (a broadcast).
RecvKeeps(q) == q

\* spmc recv: the message handed out leaves the channel
RecvRest(q) == Tail(q)

\* Variant: a receive that gives up on an empty channel, sender or not.
RecvEmpty(q) == q = <<>>

\* Variant: a receive that fails as soon as the sender is gone, buffered
\* messages or not.
RecvSenderGone(q) == prodPc = "done"

\* spmc recv: Err(_) once the sender is gone and nothing is buffered
RecvDisconnected(q) == q = <<>> /\ prodPc = "done"

\* rx.recv() => Ok(song)   (main.rs:123-124)
WorkerRecv ==
    /\ Idle \in BagToSet(workers)
    /\ workq # <<>>
    /\ LET item == Head(workq) IN
        /\ workq' = RecvRest(workq)
        /\ taken' = [taken EXCEPT ![item.idx] = @ + 1]
        /\ workers' = Replace(Idle, W("search", item, "", NoOutcome))
    /\ UNCHANGED <<mutate, nWorkers, total, songs, prodPc, next, searchLog,
                   addLog, outq, collPc, failed_songs, received, mainPc, exit,
                   io, summary, file, cap, hung, qIn, qOut>>

\* rx.recv() => Err(_) => break   (main.rs:159)
WorkerExit ==
    /\ Idle \in BagToSet(workers)
    /\ RecvDisconnected(workq)
    /\ workers' = Replace(Idle, Exited)
    /\ UNCHANGED <<mutate, nWorkers, total, songs, prodPc, next, workq, taken,
                   searchLog, addLog, outq, collPc, failed_songs, received,
                   mainPc, exit, io, summary, file, cap, hung, qIn, qOut>>

\* Variant: the add request made whatever the flag says.
AlwaysMutating == TRUE

\* if mutate   (main.rs:126)
Mutating == mutate

\* Variant: the error of the search dropped, the add made all the same.
AfterSearchIgnoringErr(item, res) ==
    IF Mutating
    THEN W("add", item, res.val, NoOutcome)
    ELSE W("send", item, res.val, Added(item, res.val))

\* Variant: a failed search tried again.
AfterSearchRetrying(item, res) ==
    IF res.ok
    THEN IF Mutating
         THEN W("add", item, res.val, NoOutcome)
         ELSE W("send", item, res.val, Added(item, res.val))
    ELSE W("search", item, "", NoOutcome)

\* The arms of match search_spotify_track(..).await   (main.rs:124-158)
AfterSearch(item, res) ==
    IF res.ok
    THEN IF Mutating
         THEN W("add", item, res.val, NoOutcome)
         ELSE W("send", item, res.val, Added(item, res.val))
    ELSE W("send", item, "", Skipped(item, Reason("search track", res.err)))

\* let q = search_query(&song.title, &song.artist_name, &song.album_title);
QueryOf(song) == search_query(song.title, song.artist_name, song.album_title)

\* search_spotify_track(&http_client, &token, &song).await
WorkerSearch ==
    \E w \in BagToSet(workers) :
        /\ w.pc = "search"
        /\ hung # Hang(w.item.idx, "search")
        /\ LET q == QueryOf(w.item.song) IN
           \E rsp \in SearchResponses :
               /\ searchLog' = [searchLog EXCEPT ![w.item.idx] =
                                   Append(@, [key |-> q, rsp |-> rsp])]
               /\ workers' = Replace(w, AfterSearch(w.item,
                                                    search_spotify_track(rsp)))
        /\ UNCHANGED <<mutate, nWorkers, total, songs, prodPc, next, workq,
                       taken, addLog, outq, collPc, failed_songs, received,
                       mainPc, exit, io, summary, file, cap, hung, qIn, qOut>>

\* if let Err(e) = add_spotify_liked_track(..).await { Skipped; continue }
\* and then the Added send   (main.rs:131-147)
AfterAdd(item, id, res) ==
    IF res.ok
    THEN W("send", item, id, Added(item, id))
    ELSE W("send", item, id, Skipped(item, Reason("add track", res.err)))

\* add_spotify_liked_track(&http_client, &token, &id).await
WorkerAdd ==
    \E w \in BagToSet(workers) :
        /\ w.pc = "add"
        /\ hung # Hang(w.item.idx, "add")
        /\ \E rsp \in AddResponses :
               /\ addLog' = [addLog EXCEPT ![w.item.idx] =
                                Append(@, [key |-> w.id, rsp |-> rsp])]
               /\ workers' = Replace(w, AfterAdd(w.item, w.id,
                                                 add_spotify_liked_track(rsp)))
        /\ UNCHANGED <<mutate, nWorkers, total, songs, prodPc, next, workq,
                       taken, searchLog, outq, collPc, failed_songs, received,
                       mainPc, exit, io, summary, file, cap, hung, qIn, qOut>>

\* variant: try_send in place of send(..).await; an outcome that finds the
\* channel full is dropped and the worker goes on
WorkerTrySend ==
    \E w \in BagToSet(workers) :
        /\ w.pc = "send"
        /\ outq' = IF Len(outq) < cap THEN Append(outq, w.out) ELSE outq
        /\ workers' = Replace(w, Idle)
        /\ UNCHANGED <<mutate, nWorkers, total, songs, prodPc, next, workq,
                       taken, searchLog, addLog, collPc, failed_songs,
                       received, mainPc, exit, io, summary, file, cap, hung,
                       qIn, qOut>>

\* added_tx.send(..).await.unwrap(): waits for room in the channel, then the
\* loop goes round   (main.rs:134-147, 150-156)
WorkerSend ==
    \E w \in BagToSet(workers) :
        /\ w.pc = "send"
        /\ Len(outq) < cap
        /\ outq' = Append(outq, w.out)
        /\ workers' = Replace(w, Idle)
        /\ UNCHANGED <<mutate, nWorkers, total, songs, prodPc, next, workq,
                       taken, searchLog, addLog, collPc, failed_songs,
                       received, mainPc, exit, io, summary, file, cap, hung,
                       qIn, qOut>>

\* The arms of match added_rx.recv().await for Some(..)   (main.rs:175-181)
Collect(failed, o) ==
    IF o.tag = "Skipped" THEN Append(failed, o.item) ELSE failed

CollectorRecv ==
    /\ collPc = "recv"
    /\ outq # <<>>
    /\ outq' = Tail(outq)
    /\ failed_songs' = Collect(failed_songs, Head(outq))
    /\ received' = received (+) SetToBag({Head(outq)})
    /\ UNCHANGED <<mutate, nWorkers, total, songs, prodPc, next, workq, taken,
                   workers, searchLog, addLog, collPc, mainPc, exit, io,
                   summary, file, cap, hung, qIn, qOut>>

\* variant: run() keeps its own added_tx (no drop at main.rs:165), so the
\* channel still has a sender when every worker is gone
OutcomesKeptOpen == outq = <<>> /\ AllWorkersExited /\ mainPc # "join"

\* variant: the collector stops at the first moment the channel is empty
OutcomesEmpty == outq = <<>>

\* mpsc recv: None once every sender is dropped and nothing is buffered.
\* run() drops its own added_tx before the collector is spawned (main.rs:165);
\* each worker's clone is dropped when its task ends.
OutcomesClosed == outq = <<>> /\ AllWorkersExited

\* None => break   (main.rs:182-184)
CollectorExit ==
    /\ collPc = "recv"
    /\ OutcomesClosed
    /\ collPc' = "done"
    /\ UNCHANGED <<mutate, nWorkers, total, songs, prodPc, next, workq, taken,
                   workers, searchLog, addLog, outq, failed_songs, received,
                   mainPc, exit, io, summary, file, cap, hung, qIn, qOut>>

\* variant: the collector's handle is not among the joined handles
JoinWorkersOnly == prodPc = "done" /\ AllWorkersExited

\* variant: run() goes on when the first of the handles is done
JoinFirstDone == prodPc = "done"

\* handles holds the producer, every worker and the collector
\* (main.rs:108, 121, 172)
JoinReady == prodPc = "done" /\ AllWorkersExited /\ collPc = "done"

\* join_all(handles).await   (main.rs:189)
Join ==
    /\ mainPc = "join"
    /\ JoinReady
    /\ mainPc' = "report"
    /\ UNCHANGED <<mutate, nWorkers, total, songs, prodPc, next, workq, taken,
                   workers, searchLog, addLog, outq, collPc, failed_songs,
                   received, exit, io, summary, file, cap, hung, qIn, qOut>>

\* total as usize - failed_songs.lock().unwrap().len()   (main.rs:191)
\* A usize is wider than the integers at hand here: a wrapped difference
\* stands for value + 2^64 (value < 0).
UsizeSub(a, b) == [wrapped |-> b > a, value |-> a - b]

Summary(added, filename) ==
    [printed |-> TRUE, total |-> total, wrapped |-> added.wrapped,
     added |-> added.value, filename |-> filename]

\* The subtraction overflows in a build with overflow checks: run() panics.
ReportPanic ==
    /\ mainPc = "report"
    /\ UsizeSub(total, Len(failed_songs)).wrapped
    /\ mainPc' = "done"
    /\ exit' = "panic"
    /\ UNCHANGED <<mutate, nWorkers, total, songs, prodPc, next, workq, taken,
                   workers, searchLog, addLog, outq, collPc, failed_songs,
                   received, io, summary, file, cap, hung, qIn, qOut>>

\* else { info!("total songs: {}, added: {}", ..) }; Ok(())  (main.rs:205-209)
ReportNoFailures ==
    /\ mainPc = "report"
    /\ failed_songs = <<>>
    /\ summary' = Summary(UsizeSub(total, Len(failed_songs)), FALSE)
    /\ mainPc' = "done"
    /\ exit' = "ok"
    /\ UNCHANGED <<mutate, nWorkers, total, songs, prodPc, next, workq, taken,
                   workers, searchLog, addLog, outq, collPc, failed_songs,
                   received, io, file, cap, hung, qIn, qOut>>

\* What is on disk when the write stops short: some of the records.
Partial(content) == {SubSeq(content, 1, k) : k \in 0..(Len(content) - 1)}

\* if !failed_songs.is_empty() { info!(..); File::create(..)?;
\*     serde_json::to_writer_pretty(BufWriter::new(f), ..)?; }; Ok(())
\* (main.rs:193-204, 209).  The file system lets it all through ("ok"),
\* fails the create, fails a write of the serializer, or fails the flush
\* the BufWriter does when it is dropped, which reports nothing.
ReportFailures ==
    /\ mainPc = "report"
    /\ failed_songs # <<>>
    /\ summary' = Summary(UsizeSub(total, Len(failed_songs)), TRUE)
    /\ mainPc' = "done"
    /\ \/ /\ io' = "ok"
          /\ file' = [exists |-> TRUE, content |-> failed_songs]
          /\ exit' = "ok"
       \/ /\ io' = "create"
          /\ file' = file
          /\ exit' = "error"
       \/ /\ io' = "write"
          /\ \E c \in Partial(failed_songs) :
                 file' = [exists |-> TRUE, content |-> c]
          /\ exit' = "error"
       \/ /\ io' = "flush"
          /\ \E c \in Partial(failed_songs) :
                 file' = [exists |-> TRUE, content |-> c]
          /\ exit' = "ok"
    /\ UNCHANGED <<mutate, nWorkers, total, songs, prodPc, next, workq, taken,
                   workers, searchLog, addLog, outq, collPc, failed_songs,
                   received, cap, hung, qIn, qOut>>

PipeNext ==
    \/ ProducerSend
    \/ ProducerDone
    \/ WorkerRecv
    \/ WorkerExit
    \/ WorkerSearch
    \/ WorkerAdd
    \/ WorkerSend
    \/ CollectorRecv
    \/ CollectorExit
    \/ Join
    \/ ReportPanic
    \/ ReportNoFailures
    \/ ReportFailures

Next == PipeNext

Spec == Init /\ [][Next]_vars

\* The steps of each spawned task and of run() itself.  The runtime keeps
\* polling every task that can make progress, and a remote call that is
\* not the hung one returns: a task that can step does step.
ProducerStep == ProducerSend \/ ProducerDone
WorkerStep == WorkerRecv \/ WorkerExit \/ WorkerSearch \/ WorkerAdd \/ WorkerSend
CollectorStep == CollectorRecv \/ CollectorExit
MainStep == Join \/ ReportPanic \/ ReportNoFailures \/ ReportFailures

Fairness ==
    /\ WF_vars(ProducerStep)
    /\ WF_vars(WorkerStep)
    /\ WF_vars(CollectorStep)
    /\ WF_vars(MainStep)

\* The pipeline under fair scheduling, every remote call returning.
LiveSpec == Init /\ [][Next]_vars /\ Fairness

\* The pipeline with an outcome channel of any capacity from the one of
\* the code up to MaxCapacity.
CapInit ==
    /\ PipeInit
    /\ cap \in OUTCOME_CAPACITY..MaxCapacity
    /\ hung = NoHang
    /\ qIn = [track |-> <<>>, artist |-> <<>>, album |-> <<>>]
    /\ qOut = [done |-> FALSE, q |-> <<>>]

CapSpec == CapInit /\ [][Next]_vars

\* The program as built (16 workers) with one remote call that never
\* returns: the search or the add of one song of a non-empty batch.
HungInit ==
    /\ PipeInit
    /\ cap = OUTCOME_CAPACITY
    /\ nWorkers = N_WORKERS
    /\ hung \in {Hang(i, call) : i \in DOMAIN songs, call \in {"search", "add"}}
    /\ qIn = [track |-> <<>>, artist |-> <<>>, album |-> <<>>]
    /\ qOut = [done |-> FALSE, q |-> <<>>]

HungSpec == HungInit /\ [][Next]_vars /\ Fairness

----------------------------------------------------------------------------
(* search_query on its own *)

Fields == {<<>>, Str("T")}

RECURSIVE AlbumsWith(_)
AlbumsWith(n) ==
    IF n = 0 THEN {<<>>, Str("X")}
    ELSE LET shorter == AlbumsWith(n - 1) IN
         shorter \cup {a \o ALBUM_TRIM_SUFFIXES[k] :
                          a \in shorter, k \in DOMAIN ALBUM_TRIM_SUFFIXES}

QueryInit ==
    /\ PipeInit
    /\ cap = OUTCOME_CAPACITY
    /\ hung = NoHang
    /\ ~mutate /\ nWorkers = 1 /\ total = 0 /\ songs = <<>>
    /\ qIn \in [track : Fields, artist : Fields, album : AlbumsWith(MaxSuffixes)]
    /\ qOut = [done |-> FALSE, q |-> <<>>]

ApplySearchQuery ==
    /\ ~qOut.done
    /\ qOut' = [done |-> TRUE,
                q |-> search_query(qIn.track, qIn.artist, qIn.album)]
    /\ UNCHANGED <<qIn, pipeVars>>

QueryNext == ApplySearchQuery

QuerySpec == QueryInit /\ [][QueryNext]_vars

----------------------------------------------------------------------------
(* Vocabulary of the properties *)

Idx == DOMAIN songs

\* join_all has returned: the producer, the workers and the collector ended
Joined == mainPc # "join"

RangeOf(seq) == {seq[k] : k \in 1..Len(seq)}

\* The outcomes the collector received for input position i
ReceivedFor(i) == {o \in BagToSet(received) : o.item.idx = i}
CountReceived(i) == BagCardinality([o \in ReceivedFor(i) |-> received[o]])

\* Every outcome made for input position i, wherever it is by now
EmittedFor(i) ==
    {w.out : w \in {x \in BagToSet(workers) :
                        x.pc = "send" /\ x.out.item.idx = i}}
    \cup {o \in RangeOf(outq) : o.item.idx = i}
    \cup ReceivedFor(i)

\* What the remote answered, in the words of the interface: a search finds
\* a track when it answers with a success status and at least one item; an
\* add succeeds on any 2xx status.
SearchFound(rsp) ==
    ~rsp.err /\ rsp.status \in 200..299 /\ rsp.json /\ rsp.items # <<>>
AddSucceeded(rsp) == ~rsp.err /\ rsp.status \in 200..299
AddRefused(rsp) == rsp.err \/ rsp.status \notin 200..299

SearchFoundFor(i) == searchLog[i] # <<>> /\ SearchFound(searchLog[i][1].rsp)
SearchFailedFor(i) == searchLog[i] # <<>> /\ ~SearchFound(searchLog[i][1].rsp)

IoFailed == io \in {"create", "write", "flush"}

----------------------------------------------------------------------------
(* C1: once the producer, the workers and the collector have all ended,    *)
(* every input Record has been received by exactly one worker and the      *)
(* collector has received exactly one Outcome for it, carrying that        *)
(* Record: as many outcomes as songs; and at no time has a Record been     *)
(* received twice or two outcomes been received for it.                    *)
C1_ExactlyOnce ==
    /\ \A i \in Idx : taken[i] <= 1 /\ CountReceived(i) <= 1
    /\ Joined =>
         /\ \A i \in Idx :
              /\ taken[i] = 1
              /\ CountReceived(i) = 1
              /\ \A o \in ReceivedFor(i) : o.item = Item(i, songs[i])
         /\ BagCardinality(received) = Len(songs)

C1_Witness ==
    /\ Joined
    /\ nWorkers = N_WORKERS
    /\ Len(songs) >= 2
    /\ songs[1] = songs[2]
    /\ BagCardinality(received) = Len(songs)

(* C2: when the summary is printed, the added count it reports plus the    *)
(* number of skipped Records equals the number of outcomes the collector   *)
(* received, whatever the declared total.                                  *)
C2_AddedPlusSkipped ==
    summary.printed =>
        /\ ~summary.wrapped
        /\ summary.added + Len(failed_songs) = BagCardinality(received)

(* C4: the add request is made only in mutating mode; without --mutate no  *)
(* add request is made for any Record, no worker is about to make one, and *)
(* every outcome of a Record whose search found a track is Added, one such *)
(* outcome having reached the collector by the time of the join.           *)
C4_AddOnlyWhenMutating ==
    /\ \A i \in Idx : addLog[i] # <<>> => mutate
    /\ ~mutate =>
         /\ \A w \in BagToSet(workers) : w.pc # "add"
         /\ \A i \in Idx : SearchFoundFor(i) =>
              /\ \A o \in EmittedFor(i) : o.tag = "Added"
              /\ Joined => CountReceived(i) = 1

C4_Witness ==
    /\ ~mutate
    /\ Joined
    /\ \E i \in Idx : SearchFoundFor(i) /\ CountReceived(i) = 1

(* C3: in mutating mode, when run() has ended and the file system has not  *)
(* failed, a Record whose search found a track but whose add request was   *)
(* refused (transport error or a status that is no success) has exactly    *)
(* one outcome, Skipped with a reason containing "add track", none Added,  *)
(* and its Record is in the failure report file.                           *)
C3_AddFailureReported ==
    (mainPc = "done" /\ ~IoFailed) =>
        \A i \in Idx :
            (/\ mutate
             /\ SearchFoundFor(i)
             /\ addLog[i] # <<>>
             /\ AddRefused(addLog[i][1].rsp))
            => /\ CountReceived(i) = 1
               /\ \A o \in EmittedFor(i) :
                      o.tag = "Skipped" /\ Contains(o.reason, "add track")
               /\ file.exists
               /\ Item(i, songs[i]) \in RangeOf(file.content)

(* C3, the part about the outcome alone: at any time every outcome of such *)
(* a Record is Skipped with a reason containing "add track", and by the    *)
(* join exactly one has been received and its Record is in failed_songs.   *)
C3_SkippedNeverAdded ==
    \A i \in Idx :
        (/\ mutate
         /\ SearchFoundFor(i)
         /\ addLog[i] # <<>>
         /\ AddRefused(addLog[i][1].rsp))
        => /\ \A o \in EmittedFor(i) :
                  o.tag = "Skipped" /\ Contains(o.reason, "add track")
           /\ Joined => /\ CountReceived(i) = 1
                        /\ Item(i, songs[i]) \in RangeOf(failed_songs)

(* C5: a Record whose search failed (transport failure, a status that is   *)
(* no success, a body that does not decode, or no item) has no add request *)
(* at any time, each of its outcomes is Skipped with a reason containing   *)
(* "search track", and one has been received by the join; and an add       *)
(* request for a Record exists only if the search for that same Record     *)
(* found a track, and it carries the id of the first item found.           *)
C5_SearchFailureSkips ==
    \A i \in Idx :
        /\ SearchFailedFor(i) =>
             /\ addLog[i] = <<>>
             /\ \A w \in BagToSet(workers) : w.item.idx = i => w.pc # "add"
             /\ \A o \in EmittedFor(i) :
                    o.tag = "Skipped" /\ Contains(o.reason, "search track")
             /\ Joined => CountReceived(i) = 1
        /\ addLog[i] # <<>> =>
             /\ SearchFoundFor(i)
             /\ addLog[i][1].key = searchLog[i][1].rsp.items[1]

C5_Witness ==
    /\ mutate
    /\ Joined
    /\ \E i, j \in Idx :
          /\ SearchFailedFor(i)
          /\ searchLog[i][1].rsp.items = <<>>
          /\ searchLog[i][1].rsp.json
          /\ CountReceived(i) = 1
          /\ addLog[j] # <<>>

\* The Records of the Skipped outcomes received, as a bag
SkippedReceived ==
    LET sk == {o \in BagToSet(received) : o.tag = "Skipped"}
        items == {o.item : o \in sk}
    IN [it \in items |->
           BagCardinality([o \in {x \in sk : x.item = it} |-> received[o]])]

SeqToBag(seq) ==
    [x \in RangeOf(seq) |-> Cardinality({k \in 1..Len(seq) : seq[k] = x})]

(* C6: when run() has ended and the file system has not failed, the        *)
(* failure report file exists if and only if the collector received at     *)
(* least one Skipped outcome, and then it holds exactly the Records of the *)
(* Skipped outcomes received, each once.                                   *)
C6_ReportIffSkipped ==
    (mainPc = "done" /\ ~IoFailed) =>
        /\ file.exists <=> (SkippedReceived # EmptyBag)
        /\ file.exists => SeqToBag(file.content) = SkippedReceived

(* C7: for each Record at most one search request and at most one add      *)
(* request is made, and a Record whose search or add has failed is not     *)
(* received by a worker again: it is never back in the work channel nor in *)
(* the hands of a worker once its failure is on its way to the collector.  *)
C7_NoRetry ==
    \A i \in Idx :
        /\ Len(searchLog[i]) <= 1
        /\ Len(addLog[i]) <= 1
        /\ (\/ SearchFailedFor(i)
            \/ (addLog[i] # <<>> /\ ~add_spotify_liked_track(addLog[i][1].rsp).ok))
           => /\ taken[i] = 1
              /\ \A k \in 1..Len(workq) : workq[k].idx # i
              /\ \A w \in BagToSet(workers) :
                     w.item.idx = i => w.pc = "send" /\ w.out.tag = "Skipped"

C7_Witness ==
    /\ Joined
    /\ \E i, j \in Idx :
          /\ i # j
          /\ SearchFailedFor(i)
          /\ addLog[j] # <<>>
          /\ AddRefused(addLog[j][1].rsp)

\* The requests answered so far, over all input positions
Answered(log) == UNION {RangeOf(log[i]) : i \in DOMAIN log}

\* The remote's answers depended only on the request: equal queries got
\* equal search responses, equal ids equal add responses.
RemoteIsFunction ==
    /\ \A e1, e2 \in Answered(searchLog) : e1.key = e2.key => e1.rsp = e2.rsp
    /\ \A e1, e2 \in Answered(addLog) : e1.key = e2.key => e1.rsp = e2.rsp

HasAnswer(log, key) == \E e \in Answered(log) : e.key = key
AnswerTo(log, key) == (CHOOSE e \in Answered(log) : e.key = key).rsp

\* One Record taken through search and add on its own, against the remote
\* as a function of the request: what a pool of any size is to deliver.
Alone(i) ==
    LET item  == Item(i, songs[i])
        found == search_spotify_track(AnswerTo(searchLog, QueryOf(songs[i])))
    IN  IF ~found.ok
        THEN Skipped(item, Reason("search track", found.err))
        ELSE IF ~mutate THEN Added(item, found.val)
        ELSE LET put == add_spotify_liked_track(AnswerTo(addLog, found.val))
             IN  IF put.ok THEN Added(item, found.val)
                 ELSE Skipped(item, Reason("add track", put.err))

\* Every request Alone needs has been answered
AloneDefined ==
    \A i \in Idx :
        /\ HasAnswer(searchLog, QueryOf(songs[i]))
        /\ LET found ==
                 search_spotify_track(AnswerTo(searchLog, QueryOf(songs[i])))
           IN  (found.ok /\ mutate) => HasAnswer(addLog, found.val)

(* C8: when the remote's answers depend only on the request, the bag of    *)
(* outcomes the collector holds at the join is the bag of the Records      *)
(* each taken alone through search and add: a function of the batch, the   *)
(* flag and the remote, the same for a pool of 1 and a pool of 16 and for  *)
(* every interleaving.                                                     *)
C8_PoolSizeIrrelevant ==
    (Joined /\ RemoteIsFunction) =>
        /\ AloneDefined
        /\ received = SeqToBag([i \in Idx |-> Alone(i)])

C8_Witness ==
    /\ Joined
    /\ RemoteIsFunction
    /\ nWorkers = N_WORKERS
    /\ mutate
    /\ Len(songs) >= 2
    /\ songs[1] = songs[2]
    /\ \E o \in BagToSet(received) : o.tag = "Added" /\ received[o] = 1

(* C9: in mutating mode, a Record whose search found a track and whose add *)
(* request was answered with a status in 200..299 has only Added outcomes, *)
(* and one has been received by the join.                                  *)
C9_Any2xxIsAdded ==
    \A i \in Idx :
        (/\ mutate
         /\ SearchFoundFor(i)
         /\ addLog[i] # <<>>
         /\ AddSucceeded(addLog[i][1].rsp))
        => /\ \A o \in EmittedFor(i) : o.tag = "Added"
           /\ Joined => CountReceived(i) = 1

\* s with its last Len(suffix) characters taken off
DropLast(s, suffix) == SubSeq(s, 1, Len(s) - Len(suffix))

(* C10: for an album ending in one of the suffixes of the list, the query  *)
(* is the one built from the album with exactly that suffix taken off,     *)
(* once, and nothing more.                                                 *)
C10_TrimsOneSuffix ==
    qOut.done =>
        \A k \in DOMAIN ALBUM_TRIM_SUFFIXES :
            EndsWith(qIn.album, ALBUM_TRIM_SUFFIXES[k]) =>
                qOut.q = FormatQuery(qIn.track, qIn.artist,
                                     DropLast(qIn.album, ALBUM_TRIM_SUFFIXES[k]))

\* the number of places in s where p occurs
Occurrences(s, p) ==
    Cardinality({k \in 1..(Len(s) - Len(p) + 1) :
                    SubSeq(s, k, k + Len(p) - 1) = p})

\* the field is in the query once, behind its qualifier, and followed by
\* the separating blank
RenderedOnce(q, prefix, field) ==
    /\ Occurrences(q, prefix) = 1
    /\ Occurrences(q, prefix \o field \o Str(" ")) = 1

\* the field is in the query exactly when it is not empty
RenderedIffNonEmpty(q, prefix, field) ==
    IF field = <<>> THEN Occurrences(q, prefix) = 0
    ELSE RenderedOnce(q, prefix, field)

C12_RunCompletes ==
    <>(/\ prodPc = "done"
       /\ workq = <<>>
       /\ AllWorkersExited
       /\ OutcomesClosed
       /\ collPc = "done"
       /\ Joined)

C12_Witness ==
    /\ Joined
    /\ nWorkers = N_WORKERS
    /\ Len(songs) = MaxSongs
    /\ collPc = "done"
    /\ \A i \in Idx : CountReceived(i) = 1

(* C13: when a Record was skipped and the file system fails the create or *)
(* a write of the failure report, the run ends in error (non-zero exit),   *)
(* after one attempt.                                                      *)
C13_ReportFailureFatal ==
    (mainPc = "done" /\ failed_songs # <<>> /\ IoFailed) => exit = "error"

(* C14: whenever run() is past the join (in or after its report stage),   *)
(* the producer, every worker and the collector have ended and both        *)
(* channels are empty; and from then on no step changes the list of        *)
(* skipped Records or the outcomes received.                               *)
C14_ReportAfterAllTasks ==
    /\ [](Joined => (/\ prodPc = "done"
                     /\ AllWorkersExited
                     /\ collPc = "done"
                     /\ workq = <<>>
                     /\ outq = <<>>))
    /\ [][Joined => (/\ failed_songs' = failed_songs
                     /\ received' = received)]_vars

C14_Witness ==
    /\ mainPc = "done"
    /\ summary.printed
    /\ nWorkers = N_WORKERS
    /\ Len(failed_songs) = 1
    /\ BagCardinality(received) = MaxSongs

(* C15: in every state where some worker has left its loop, the producer  *)
(* has sent every Record and ended, the work channel is empty, and every   *)
(* Record has been handed to a worker.                                     *)
C15_ExitOnlyWhenDrained ==
    (CopiesIn(Exited, workers) > 0) =>
        /\ prodPc = "done"
        /\ next = Len(songs) + 1
        /\ workq = <<>>
        /\ \A i \in Idx : taken[i] >= 1

C15_Witness ==
    /\ CopiesIn(Exited, workers) > 0
    /\ CopiesIn(Exited, workers) < nWorkers
    /\ nWorkers = N_WORKERS
    /\ Len(songs) = MaxSongs
    /\ \E w \in BagToSet(workers) : w.pc = "search"

\* a worker is inside the remote call that never returns
Stuck ==
    \E w \in BagToSet(workers) : w.pc = hung.call /\ w.item.idx = hung.idx

(* C16: with one remote call that never returns, under fair scheduling    *)
(* every Record other than the one of that call eventually has its one    *)
(* Outcome received by the collector, for good; the search of the Record   *)
(* of a hung search is eventually under way; and once a worker is inside   *)
(* the hung call it stays there and run() never gets past the join.        *)
C16_HangBlocksOneWorker ==
    /\ \A i \in 1..MaxSongs :
           <>[]((i \in Idx /\ i # hung.idx) => CountReceived(i) = 1)
    /\ <>(hung.call = "search" => Stuck)
    /\ [](Stuck => ~Joined)
    /\ [][Stuck => Stuck']_vars

C16_Witness ==
    /\ Stuck
    /\ Len(songs) = MaxSongs
    /\ collPc = "recv"
    /\ \A i \in Idx : i # hung.idx => CountReceived(i) = 1
    /\ CopiesIn(Exited, workers) = nWorkers - 1

(* C17: while any worker has not yet exited, and so in every state where  *)
(* a worker is about to send an Outcome, the collector is still receiving; *)
(* the collector has ended only when every worker has exited and the       *)
(* outcome channel is empty.                                               *)
C17_SendFindsCollector ==
    /\ (\E w \in BagToSet(workers) : w # Exited) => collPc = "recv"
    /\ collPc = "done" => (AllWorkersExited /\ outq = <<>>)

C17_Witness ==
    /\ nWorkers = N_WORKERS
    /\ collPc = "recv"
    /\ Len(outq) = OUTCOME_CAPACITY
    /\ CopiesIn(Exited, workers) = nWorkers - 1
    /\ \E w \in BagToSet(workers) : w.pc = "send"

\* the workers that hold the Record of input position i
InPool(i) ==
    BagCardinality([w \in {x \in BagToSet(workers) : x.item.idx = i}
                       |-> workers[w]])

\* the outcomes for input position i that sit in the outcome channel
InChannel(i) == Cardinality({k \in DOMAIN outq : outq[k].item.idx = i})

(* C18: for every capacity of the outcome channel from 1 up, the channel  *)
(* never holds more outcomes than its capacity; a Record handed to a       *)
(* worker is at every moment with a worker, in the channel or received,    *)
(* once in all, so an outcome that finds the channel full waits with its   *)
(* worker and is not dropped; and with remote answers that depend on the   *)
(* request only, the bag of outcomes received at the join is the one of    *)
(* the Records processed one by one, whatever the capacity.                *)
C18_CapacityOnlyBackpressure ==
    /\ Len(outq) <= cap
    /\ \A i \in Idx : InPool(i) + InChannel(i) + CountReceived(i) = taken[i]
    /\ (Joined /\ RemoteIsFunction) =>
           received = SeqToBag([i \in Idx |-> Alone(i)])

\* a worker waits with its outcome in front of the full channel of the
\* code's capacity while another outcome is already collected
C18_Witness ==
    /\ cap = OUTCOME_CAPACITY
    /\ Len(outq) = cap
    /\ nWorkers = N_WORKERS
    /\ \E w \in BagToSet(workers) : w.pc = "send" /\ workers[w] = 1
    /\ collPc = "recv"

\* the id of the first item of the search response for input position i
FirstItemFor(i) == searchLog[i][1].rsp.items[1]

(* C19: every Added outcome, with a worker, in the channel or received,    *)
(* carries the Record of its own input position and the id of the first    *)
(* item of the response to the search made with that Record's query; and   *)
(* every add request made for a Record, and every add about to be made,    *)
(* carries that same id.                                                   *)
C19_IdsStayWithTheirRecord ==
    \A i \in Idx :
        /\ \A o \in EmittedFor(i) :
               o.tag = "Added" =>
                   /\ o.item = Item(i, songs[i])
                   /\ SearchFoundFor(i)
                   /\ searchLog[i][1].key = QueryOf(songs[i])
                   /\ o.id = FirstItemFor(i)
        /\ \A e \in RangeOf(addLog[i]) :
               mutate /\ SearchFoundFor(i) /\ e.key = FirstItemFor(i)
        /\ \A w \in BagToSet(workers) :
               (w.pc = "add" /\ w.item.idx = i) =>
                   SearchFoundFor(i) /\ w.id = FirstItemFor(i)

C19_Witness ==
    /\ mutate
    /\ nWorkers = N_WORKERS
    /\ Len(songs) >= 2
    /\ \E o1, o2 \in BagToSet(received) :
           /\ o1.tag = "Added" /\ o1.item.idx = 1
           /\ o2.tag = "Added" /\ o2.item.idx = 2
           /\ o1.id # o2.id
           /\ Len(searchLog[1][1].rsp.items) = 2
           /\ addLog[1][1].key = o1.id
           /\ addLog[2][1].key = o2.id

(* C20: once run() is past the join, the number of skipped Records is at  *)
(* most the declared total, so total - skipped does not go below zero.     *)
C20_SkippedAtMostTotal ==
    Joined => ~UsizeSub(total, Len(failed_songs)).wrapped

====
